---------------------------- MODULE Spec2Model ----------------------------
(***************************************************************************)
(* Model of the slot-machine backend app.py: the weight table loader       *)
(* load_symbol_weights, the reel generator generate_weighted_strip and the *)
(* strip length reader get_reel_strip_length.                              *)
(*                                                                         *)
(* Python values are modelled as follows.                                  *)
(*   - a float is a record [k, v]: k = "fin" with the value v, or k = "nan"*)
(*     or k = "inf" (+inf; no negative value is ever stored in a table);   *)
(*   - a value read from JSON or passed as an argument is a record [t, v]  *)
(*     (type tag, integer payload), see the Raw values below;              *)
(*   - a dict is a function from its keys to its values; a dict OBJECT is  *)
(*     a record [ref, val] so that aliasing the module-level table can be  *)
(*     told apart from holding a copy of it.                               *)
(***************************************************************************)
EXTENDS Integers, Sequences, FiniteSets, TLC

\* ------------------------------------------------------------------ bounds

\* Largest strip length a call is given (the smallest is MinLen).
MaxLen == 3
\* Largest absolute value of an integer reel_strip_length in config.json.
MaxCfg == 20

\* ------------------------------------------------------- program constants

\* get_reel_strip_length: max(3, length)
MinLen == 3
\* get_reel_strip_length: the default of config.get and of the except branch
DefaultLen == 6

\* ------------------------------------------------------------------ floats

F(n) == [k |-> "fin", v |-> n]
NaN == [k |-> "nan", v |-> 0]
Inf == [k |-> "inf", v |-> 0]

\* a + b on non-negative floats
FAdd(a, b) ==
  IF a.k = "nan" \/ b.k = "nan" THEN NaN
  ELSE IF a.k = "inf" \/ b.k = "inf" THEN Inf
  ELSE F(a.v + b.v)

\* a * b on non-negative floats (inf * 0 is nan)
FMul(a, b) ==
  IF a.k = "nan" \/ b.k = "nan" THEN NaN
  ELSE IF a.k = "inf" THEN (IF b.k = "fin" /\ b.v = 0 THEN NaN ELSE Inf)
  ELSE IF b.k = "inf" THEN (IF a.v = 0 THEN NaN ELSE Inf)
  ELSE F(a.v * b.v)

\* x < 0, x <= 0, x != 1.0: every comparison with nan is false, != is true
FLt0(x) == x.k = "fin" /\ x.v < 0
FLe0(x) == x.k = "fin" /\ x.v <= 0
FNe1(x) == ~(x.k = "fin" /\ x.v = 1)
\* x > 0 and math.isfinite(x)
FGt0(x) == x.k = "inf" \/ (x.k = "fin" /\ x.v > 0)
FIsFinite(x) == x.k = "fin"

\* -------------------------------------------------------------- raw values

Int_(n)   == [t |-> "int", v |-> n]       \* a JSON / Python integer
NumStr(n) == [t |-> "numstr", v |-> n]    \* a string that spells the number n
BadStr    == [t |-> "str", v |-> 0]       \* a string such as "abc"
Null      == [t |-> "null", v |-> 0]      \* None / JSON null
NaNVal    == [t |-> "nan", v |-> 0]       \* float nan (JSON NaN, or "nan")
InfVal    == [t |-> "inf", v |-> 0]       \* float inf (JSON Infinity)
Absent    == [t |-> "absent", v |-> 0]    \* the key is not in the dict

\* float(raw): [ok |-> TRUE, val] or a TypeError / ValueError (ok = FALSE)
FloatOf(raw) ==
  CASE raw.t = "int"    -> [ok |-> TRUE, val |-> F(raw.v)]
    [] raw.t = "numstr" -> [ok |-> TRUE, val |-> F(raw.v)]
    [] raw.t = "nan"    -> [ok |-> TRUE, val |-> NaN]
    [] raw.t = "inf"    -> [ok |-> TRUE, val |-> Inf]
    [] OTHER            -> [ok |-> FALSE, val |-> F(0)]

\* int(raw): "ok" with the value, "caught" for TypeError / ValueError,
\* "overflow" for the OverflowError of int(float('inf'))
IntOf(raw) ==
  CASE raw.t = "int"    -> [r |-> "ok", val |-> raw.v]
    [] raw.t = "numstr" -> [r |-> "ok", val |-> raw.v]
    [] raw.t = "inf"    -> [r |-> "overflow", val |-> 0]
    [] OTHER            -> [r |-> "caught", val |-> 0]

\* ------------------------------------------------------------------- dicts

\* d[key] = val on a dict value
SetItem(d, key, val) ==
  [x \in (DOMAIN d) \cup {key} |-> IF x = key THEN val ELSE d[x]]

\* The literal assigned to DEFAULT_WEIGHTS when the module is loaded.
DefaultWeightsLiteral ==
  [s \in {"coin_1", "coin_stack", "coin_pile", "gem_1", "gem_many",
          "bomb_1", "bomb_atom", "card_item", "random_item"} |->
     CASE s = "coin_1"      -> F(25)
       [] s = "coin_stack"  -> F(10)
       [] s = "coin_pile"   -> F(5)
       [] s = "gem_1"       -> F(15)
       [] s = "gem_many"    -> F(5)
       [] s = "bomb_1"      -> F(15)
       [] s = "bomb_atom"   -> F(5)
       [] s = "card_item"   -> F(10)
       [] s = "random_item" -> F(5)]

\* The two symbols the bomb multiplier is applied to.
BombSymbols == {"bomb_1", "bomb_atom"}


\* A dict object: "local" objects own their value, the "global" object is the
\* module-level DEFAULT_WEIGHTS, "none" is an unbound local.
NoDict == [ref |-> "none", val |-> <<>>]

\* Mutant of DictCopy: the table itself is handed out, not a copy.
DictAlias(d) == [ref |-> "global", val |-> d]

\* DEFAULT_WEIGHTS.copy(): a new object holding the entries of d
DictCopy(d) == [ref |-> "local", val |-> d]

\* --------------------------------------------------- symbol-weights.json

\* An entry of the "symbols" mapping: the key sym and its value cfg, which is
\* a dict (isdict) with the fields probability and weight (Absent when the
\* key is missing), or some other JSON value.
Entry(sym, isdict, probability, weight) ==
  [sym |-> sym, isdict |-> isdict, probability |-> probability, weight |-> weight]

\* What open + json.load produce for symbol-weights.json:
\*   kind "missing"    FileNotFoundError
\*   kind "unreadable" any other exception (invalid JSON, permissions)
\*   kind "null"       a falsy document (null, {}, [], 0)
\*   kind "nondict"    a truthy document that is no object ([1], 5, "x")
\*   kind "dict"       an object; hasSymbols, symbolsIsDict and entries
\*                     describe its "symbols" member
WeightsFile(kind, hasSymbols, symbolsIsDict, entries) ==
  [kind |-> kind, hasSymbols |-> hasSymbols, symbolsIsDict |-> symbolsIsDict,
   entries |-> entries]

NoFile == WeightsFile("none", FALSE, FALSE, <<>>)

\* Mutant of RawOf: weight is read first.
RawOfWeightFirst(e) ==
  IF e.weight # Absent THEN e.weight
  ELSE IF e.probability # Absent THEN e.probability
  ELSE Null

\* cfg.get('probability', cfg.get('weight', None))
RawOf(e) ==
  IF e.probability # Absent THEN e.probability
  ELSE IF e.weight # Absent THEN e.weight
  ELSE Null

\* One iteration of the loop over symbols.items(): the dict after it.
MergeEntry(m, e) ==
  IF ~e.isdict THEN m
  ELSE LET w == FloatOf(RawOf(e)) IN
       IF ~w.ok THEN m
       ELSE IF FLt0(w.val) THEN m
       ELSE SetItem(m, e.sym, w.val)

\* for sym, cfg in symbols.items(): ...
RECURSIVE MergeLoop(_, _)
MergeLoop(m, entries) ==
  IF entries = <<>> THEN m
  ELSE MergeLoop(MergeEntry(m, Head(entries)), Tail(entries))

\* sum(float(v) for v in d.values()), also the total random.choices computes
RECURSIVE SumOver(_, _)
SumOver(d, keys) ==
  IF keys = {} THEN F(0)
  ELSE LET x == CHOOSE y \in keys : TRUE IN FAdd(d[x], SumOver(d, keys \ {x}))

SumWeights(d) == SumOver(d, DOMAIN d)

\* The test that sends load_symbol_weights back to the defaults.
SumIsDegenerate(d) == FLe0(SumWeights(d))

\* -------------------------------------------------- generate_weighted_strip

\* Mutant of NormalizeMultiplier: a negative multiplier is kept.
NormalizeMultiplierKeepNegative(raw) ==
  LET c == FloatOf(raw) IN IF c.ok THEN c.val ELSE F(1)

\* bm after the try/except and the "if bm < 0" normalisation
NormalizeMultiplier(raw) ==
  LET c == FloatOf(raw)
      bm == IF c.ok THEN c.val ELSE F(1)
  IN IF FLt0(bm) THEN F(1) ELSE bm

\* The bomb adjustment of the working table.
ApplyBombMultiplier(d, bm) ==
  IF FNe1(bm)
  THEN [s \in DOMAIN d |-> IF s \in BombSymbols THEN FMul(d[s], bm) ELSE d[s]]
  ELSE d

\* random.choices raises ValueError unless the total is finite and > 0.
ChoicesRaises(d) ==
  LET total == SumWeights(d) IN FLe0(total) \/ ~FIsFinite(total)

\* The symbols random.choices can return: a zero weight is never selected.
Drawable(d) == {s \in DOMAIN d : FGt0(d[s])}

\* Mutant of Choices: one draw too many.
ChoicesOneMore(d, length) == [1..(length + 1) -> Drawable(d)]

\* The strips random.choices(population, weights=weights, k=length) can return.
Choices(d, length) == [1..length -> Drawable(d)]

\* [i for i, sym in enumerate(strip) if sym not in bias_symbols]
\* (positions are 1..len(strip) here, 0..len(strip)-1 in the source)
Range(seq) == {seq[i] : i \in DOMAIN seq}

\* Mutant of AvailableIndices: the position past the end is offered too.
AvailableIndicesPastEnd(st, bias) ==
  {i \in 1..(Len(st) + 1) : i > Len(st) \/ st[i] \notin Range(bias)}

\* Mutant of AvailableIndices: every position is offered.
AvailableIndicesAny(st, bias) == DOMAIN st

AvailableIndices(st, bias) == {i \in DOMAIN st : st[i] \notin Range(bias)}

\* ---------------------------------------------------------- config.json

\* What load_config produces: kind as for symbol-weights.json, and for an
\* object the value of its reel_strip_length member (Absent when missing).
ConfigFile(kind, value) == [kind |-> kind, reel_strip_length |-> value]

NoConfig == ConfigFile("none", Absent)

\* load_config: "none" for a missing file, "raise" for any other failure of
\* open or json.load (only FileNotFoundError is caught), else the document.
LoadConfig(c) ==
  CASE c.kind = "missing"    -> "none"
    [] c.kind = "unreadable" -> "raise"
    [] OTHER                 -> "data"

Max(a, b) == IF a > b THEN a ELSE b

\* get_reel_strip_length after load_config returned: [r, val], r = "ok" with
\* the length, or r = "raise".
StripLengthOf(c) ==
  IF c.kind = "nondict" THEN [r |-> "raise", val |-> 0]
  ELSE LET length == IF c.kind = "dict" /\ c.reel_strip_length # Absent
                     THEN c.reel_strip_length ELSE Int_(DefaultLen)
           i == IntOf(length)
       IN CASE i.r = "overflow" -> [r |-> "raise", val |-> 0]
            [] i.r = "caught"   -> [r |-> "ok", val |-> Max(MinLen, DefaultLen)]
            [] OTHER            -> [r |-> "ok", val |-> Max(MinLen, i.val)]

\* ------------------------------------------------------------------ inputs

\* A symbol that is not in the default table.
Unknown == "wild"

\* The symbol-weights.json documents a call may find.
FileMissing    == WeightsFile("missing", FALSE, FALSE, <<>>)
FileUnreadable == WeightsFile("unreadable", FALSE, FALSE, <<>>)
FileNull       == WeightsFile("null", FALSE, FALSE, <<>>)
FileNonDict    == WeightsFile("nondict", FALSE, FALSE, <<>>)
FileBadSymbols == WeightsFile("dict", TRUE, FALSE, <<>>)
\* one entry of every kind the loop distinguishes
FilePartial ==
  WeightsFile("dict", TRUE, TRUE,
    << Entry("coin_1", TRUE, Int_(2), Int_(1)),
       Entry("gem_1", FALSE, Absent, Absent),
       Entry("gem_many", TRUE, Absent, BadStr),
       Entry("coin_pile", TRUE, Absent, Int_(-1)),
       Entry("bomb_atom", TRUE, Null, Int_(3)),
       Entry("card_item", TRUE, Absent, NumStr(0)),
       Entry("coin_stack", TRUE, Absent, Absent),
       Entry(Unknown, TRUE, Absent, Int_(1)) >>)
\* every default symbol set to 0
FileAllZero ==
  WeightsFile("dict", TRUE, TRUE,
    << Entry("coin_1", TRUE, Absent, Int_(0)),
       Entry("coin_stack", TRUE, Absent, Int_(0)),
       Entry("coin_pile", TRUE, Int_(0), Absent),
       Entry("gem_1", TRUE, Absent, Int_(0)),
       Entry("gem_many", TRUE, Absent, Int_(0)),
       Entry("bomb_1", TRUE, Absent, Int_(0)),
       Entry("bomb_atom", TRUE, Absent, Int_(0)),
       Entry("card_item", TRUE, Absent, Int_(0)),
       Entry("random_item", TRUE, Absent, Int_(0)) >>)
\* every symbol but the two bombs set to 0
FileBombsOnly ==
  WeightsFile("dict", TRUE, TRUE,
    << Entry("coin_1", TRUE, Absent, Int_(0)),
       Entry("coin_stack", TRUE, Absent, Int_(0)),
       Entry("coin_pile", TRUE, Absent, Int_(0)),
       Entry("gem_1", TRUE, Absent, Int_(0)),
       Entry("gem_many", TRUE, Absent, Int_(0)),
       Entry("bomb_1", TRUE, Absent, Int_(1)),
       Entry("card_item", TRUE, Absent, Int_(0)),
       Entry("random_item", TRUE, Absent, Int_(0)) >>)
\* a weight that is not a number, and an infinite one
FileNaN ==
  WeightsFile("dict", TRUE, TRUE, << Entry("coin_1", TRUE, Absent, NaNVal) >>)
FileInf ==
  WeightsFile("dict", TRUE, TRUE, << Entry("gem_1", TRUE, InfVal, Absent) >>)

Files == {FileMissing, FileUnreadable, FileNull, FileNonDict, FileBadSymbols,
          FilePartial, FileAllZero, FileBombsOnly, FileNaN, FileInf}

\* The bomb_multiplier arguments of a call.
Multipliers == {Int_(1), Int_(0), Int_(2), Int_(-1), BadStr, Null, NaNVal}

\* The bias_symbols arguments of a call; None and [] are both <<>>.
LongBias == [i \in 1..(MaxLen + 1) |->
               CASE i = 1 -> "gem_1" [] i = 2 -> "bomb_1" [] i = 3 -> Unknown
                 [] i = 4 -> "coin_1" [] OTHER -> "card_item"]
BiasLists == {<<>>, <<"gem_1", "bomb_1">>, <<"coin_pile", "coin_pile">>, LongBias}

Lengths == MinLen..MaxLen

Procs == {1, 2}

\* ------------------------------------------------------------------- state

VARIABLES
  DEFAULT_WEIGHTS,   \* the module-level table (a dict value)
  pc,                \* per call: idle, load, sumcheck, bomb, draw, bias, done, raised
  length,            \* per call: argument length
  bias_symbols,      \* per call: argument bias_symbols
  bomb_multiplier,   \* per call: argument bomb_multiplier
  data,              \* per call: what load_symbol_weights read from the file
  merged,            \* per call: load_symbol_weights' local merged
  weights_map,       \* per call: generate_weighted_strip's local weights_map
  strip,             \* per call: the strip
  bias_i,            \* per call: position of the bias loop in bias_symbols
  replace_idx,       \* per call: the last position overwritten (0: none yet)
  err,               \* per call: the exception that left the call
  lpc,               \* get_reel_strip_length: idle, loaded, returned, raised
  config,            \* get_reel_strip_length: what load_config found
  strip_length       \* get_reel_strip_length: the value returned

vars == <<DEFAULT_WEIGHTS, pc, length, bias_symbols, bomb_multiplier, data,
          merged, weights_map, strip, bias_i, replace_idx, err,
          lpc, config, strip_length>>

genVars == <<DEFAULT_WEIGHTS, pc, length, bias_symbols, bomb_multiplier, data,
             merged, weights_map, strip, bias_i, replace_idx, err>>
lenVars == <<lpc, config, strip_length>>

\* The dict a local refers to.
Deref(o) == IF o.ref = "global" THEN DEFAULT_WEIGHTS ELSE o.val

Init ==
  /\ DEFAULT_WEIGHTS = DefaultWeightsLiteral
  /\ pc = [p \in Procs |-> "idle"]
  /\ length = [p \in Procs |-> 0]
  /\ bias_symbols = [p \in Procs |-> <<>>]
  /\ bomb_multiplier = [p \in Procs |-> Int_(1)]
  /\ data = [p \in Procs |-> NoFile]
  /\ merged = [p \in Procs |-> NoDict]
  /\ weights_map = [p \in Procs |-> NoDict]
  /\ strip = [p \in Procs |-> <<>>]
  /\ bias_i = [p \in Procs |-> 0]
  /\ replace_idx = [p \in Procs |-> 0]
  /\ err = [p \in Procs |-> "none"]
  /\ lpc = "idle"
  /\ config = NoConfig
  /\ strip_length = 0

\* A caller enters generate_weighted_strip(length, bias_symbols, bomb_multiplier).
Call(p, lens, biases, mults) ==
  /\ pc[p] = "idle"
  /\ \E l \in lens, b \in biases, m \in mults :
       /\ length' = [length EXCEPT ![p] = l]
       /\ bias_symbols' = [bias_symbols EXCEPT ![p] = b]
       /\ bomb_multiplier' = [bomb_multiplier EXCEPT ![p] = m]
  /\ pc' = [pc EXCEPT ![p] = "load"]
  /\ UNCHANGED <<DEFAULT_WEIGHTS, data, merged, weights_map, strip, bias_i,
                 replace_idx, err, lenVars>>

\* load_symbol_weights up to the end of the merge loop: the file is read, and
\* either the defaults are returned at once, or an AttributeError leaves the
\* call, or merged holds the defaults with the accepted entries written in.
LoadMerge(p, files) ==
  /\ pc[p] = "load"
  /\ \E f \in files :
       /\ data' = [data EXCEPT ![p] = f]
       /\ IF f.kind \in {"missing", "unreadable"}
          THEN /\ weights_map' = [weights_map EXCEPT ![p] = DictCopy(DEFAULT_WEIGHTS)]
               /\ pc' = [pc EXCEPT ![p] = "bomb"]
               /\ UNCHANGED <<DEFAULT_WEIGHTS, merged, err>>
          ELSE IF f.kind = "nondict" \/ (f.kind = "dict" /\ f.hasSymbols /\ ~f.symbolsIsDict)
          THEN /\ pc' = [pc EXCEPT ![p] = "raised"]
               /\ err' = [err EXCEPT ![p] = "AttributeError"]
               /\ UNCHANGED <<DEFAULT_WEIGHTS, merged, weights_map>>
          ELSE LET m0 == DictCopy(DEFAULT_WEIGHTS)
                   entries == IF f.kind = "dict" /\ f.hasSymbols THEN f.entries ELSE <<>>
                   m1 == MergeLoop(m0.val, entries)
               IN /\ merged' = [merged EXCEPT ![p] = [ref |-> m0.ref, val |-> m1]]
                  /\ DEFAULT_WEIGHTS' = IF m0.ref = "global" THEN m1 ELSE DEFAULT_WEIGHTS
                  /\ pc' = [pc EXCEPT ![p] = "sumcheck"]
                  /\ UNCHANGED <<weights_map, err>>
  /\ UNCHANGED <<length, bias_symbols, bomb_multiplier, strip, bias_i,
                 replace_idx, lenVars>>

\* load_symbol_weights' sum test and return.
SumCheck(p) ==
  /\ pc[p] = "sumcheck"
  /\ weights_map' = [weights_map EXCEPT ![p] =
                       IF SumIsDegenerate(Deref(merged[p]))
                       THEN DictCopy(DEFAULT_WEIGHTS) ELSE merged[p]]
  /\ merged' = [merged EXCEPT ![p] = NoDict]
  /\ pc' = [pc EXCEPT ![p] = "bomb"]
  /\ UNCHANGED <<DEFAULT_WEIGHTS, length, bias_symbols, bomb_multiplier, data,
                 strip, bias_i, replace_idx, err, lenVars>>

\* The bomb multiplier is coerced and applied to weights_map in place.
Bomb(p) ==
  /\ pc[p] = "bomb"
  /\ LET w == weights_map[p]
         d == ApplyBombMultiplier(Deref(w), NormalizeMultiplier(bomb_multiplier[p]))
     IN /\ weights_map' = [weights_map EXCEPT ![p] = [ref |-> w.ref, val |-> d]]
        /\ DEFAULT_WEIGHTS' = IF w.ref = "global" THEN d ELSE DEFAULT_WEIGHTS
  /\ pc' = [pc EXCEPT ![p] = "draw"]
  /\ UNCHANGED <<length, bias_symbols, bomb_multiplier, data, merged, strip,
                 bias_i, replace_idx, err, lenVars>>

\* random.choices draws the base strip, or raises.
Draw(p) ==
  /\ pc[p] = "draw"
  /\ LET d == Deref(weights_map[p]) IN
     IF ChoicesRaises(d)
     THEN /\ pc' = [pc EXCEPT ![p] = "raised"]
          /\ err' = [err EXCEPT ![p] = "ValueError"]
          /\ UNCHANGED <<strip, bias_i>>
     ELSE /\ \E st \in Choices(d, length[p]) : strip' = [strip EXCEPT ![p] = st]
          /\ IF Len(bias_symbols[p]) > 0
             THEN /\ pc' = [pc EXCEPT ![p] = "bias"]
                  /\ bias_i' = [bias_i EXCEPT ![p] = 1]
             ELSE /\ pc' = [pc EXCEPT ![p] = "done"]
                  /\ UNCHANGED bias_i
          /\ UNCHANGED err
  /\ UNCHANGED <<DEFAULT_WEIGHTS, length, bias_symbols, bomb_multiplier, data,
                 merged, weights_map, replace_idx, lenVars>>

\* One iteration of "for bias_sym in bias_symbols".
BiasStep(p) ==
  /\ pc[p] = "bias"
  /\ LET bias_sym == bias_symbols[p][bias_i[p]]
         available_indices == AvailableIndices(strip[p], bias_symbols[p])
     IN IF available_indices # {}
        THEN \E i \in available_indices :
               /\ replace_idx' = [replace_idx EXCEPT ![p] = i]
               /\ strip' = [strip EXCEPT ![p] = [strip[p] EXCEPT ![i] = bias_sym]]
        ELSE UNCHANGED <<replace_idx, strip>>
  /\ IF bias_i[p] < Len(bias_symbols[p])
     THEN /\ bias_i' = [bias_i EXCEPT ![p] = bias_i[p] + 1]
          /\ UNCHANGED pc
     ELSE /\ pc' = [pc EXCEPT ![p] = "done"]
          /\ UNCHANGED bias_i
  /\ UNCHANGED <<DEFAULT_WEIGHTS, length, bias_symbols, bomb_multiplier, data,
                 merged, weights_map, err, lenVars>>

\* The call is over (the strip was returned, or the exception propagated);
\* its locals are gone.
Return(p) ==
  /\ pc[p] \in {"done", "raised"}
  /\ pc' = [pc EXCEPT ![p] = "idle"]
  /\ length' = [length EXCEPT ![p] = 0]
  /\ bias_symbols' = [bias_symbols EXCEPT ![p] = <<>>]
  /\ bomb_multiplier' = [bomb_multiplier EXCEPT ![p] = Int_(1)]
  /\ data' = [data EXCEPT ![p] = NoFile]
  /\ merged' = [merged EXCEPT ![p] = NoDict]
  /\ weights_map' = [weights_map EXCEPT ![p] = NoDict]
  /\ strip' = [strip EXCEPT ![p] = <<>>]
  /\ bias_i' = [bias_i EXCEPT ![p] = 0]
  /\ replace_idx' = [replace_idx EXCEPT ![p] = 0]
  /\ err' = [err EXCEPT ![p] = "none"]
  /\ UNCHANGED <<DEFAULT_WEIGHTS, lenVars>>

\* One call at a time, any arguments, any file.
Next ==
  \/ Call(1, Lengths, BiasLists, Multipliers)
  \/ LoadMerge(1, Files)
  \/ SumCheck(1)
  \/ Bomb(1)
  \/ Draw(1)
  \/ BiasStep(1)
  \/ Return(1)

Spec == Init /\ [][Next]_vars

\* ------------------------------------------------------- concurrent calls

\* Two requests served at the same time, their steps interleaved: one raises
\* the bomb weights while the other removes them.
ConcFiles1 == {FileMissing, FileUnreadable, FileAllZero, FilePartial, FileBombsOnly, FileNaN}
ConcFiles2 == {FileBombsOnly}

NextConc ==
  \/ Call(1, {MinLen}, {<<>>, <<"gem_1", "bomb_1">>}, {Int_(2), Int_(0)})
  \/ Call(2, {MinLen}, {<<>>}, {Int_(0), Int_(2)})
  \/ LoadMerge(1, ConcFiles1)
  \/ LoadMerge(2, ConcFiles2)
  \/ \E p \in Procs : SumCheck(p)
  \/ \E p \in Procs : Bomb(p)
  \/ \E p \in Procs : Draw(p)
  \/ \E p \in Procs : BiasStep(p)
  \/ \E p \in Procs : Return(p)

SpecConc == Init /\ [][NextConc]_vars

\* ---------------------------------------------------- get_reel_strip_length

\* The values reel_strip_length may have in config.json.
ConfigValues ==
  {Absent, Null, BadStr, NaNVal, InfVal}
    \cup {Int_(n) : n \in (0 - MaxCfg)..MaxCfg}
    \cup {NumStr(n) : n \in 0..MaxCfg}

Configs ==
  {ConfigFile(k, Absent) : k \in {"missing", "unreadable", "null", "nondict"}}
    \cup {ConfigFile("dict", v) : v \in ConfigValues}

\* config = load_config() or {}
LoadConfigStep ==
  /\ lpc = "idle"
  /\ \E c \in Configs :
       /\ config' = c
       /\ lpc' = IF LoadConfig(c) = "raise" THEN "raised" ELSE "loaded"
  /\ UNCHANGED <<strip_length, genVars>>

\* the rest of get_reel_strip_length
StripLengthStep ==
  /\ lpc = "loaded"
  /\ LET r == StripLengthOf(config) IN
       IF r.r = "raise"
       THEN lpc' = "raised" /\ UNCHANGED strip_length
       ELSE lpc' = "returned" /\ strip_length' = r.val
  /\ UNCHANGED <<config, genVars>>

LenReturn ==
  /\ lpc \in {"returned", "raised"}
  /\ lpc' = "idle"
  /\ config' = NoConfig
  /\ strip_length' = 0
  /\ UNCHANGED genVars

NextLen == LoadConfigStep \/ StripLengthStep \/ LenReturn

SpecLen == Init /\ [][NextLen]_vars

\* ------------------------------------------------------------------ claims

\* The table of a call's weights_map.
Table(p) == Deref(weights_map[p])

Distinct(seq) == \A i, j \in DOMAIN seq : seq[i] = seq[j] => i = j

\* A table of the data model: finite non-negative weights, positive total.
ValidTable(d) ==
  /\ \A s \in DOMAIN d : FIsFinite(d[s]) /\ d[s].v >= 0
  /\ SumWeights(d).v > 0

\* C1: for a bias list of distinct symbols no longer than the strip, the
\* returned strip contains every symbol of the bias list.
C1_EveryBiasSymbolPresent ==
  \A p \in Procs :
    (pc[p] = "done" /\ Distinct(bias_symbols[p]) /\ Len(bias_symbols[p]) <= length[p])
      => Range(bias_symbols[p]) \subseteq Range(strip[p])

\* C2: with no bias symbols and multiplier 1.0, a call whose table is a valid
\* table with positive total does not raise, and returns exactly length
\* symbols, each a key of the table built for the call.
C2_StripOfTableKeys ==
  \A p \in Procs :
    (bias_symbols[p] = <<>> /\ bomb_multiplier[p] = Int_(1))
      => /\ pc[p] = "done" =>
              /\ Len(strip[p]) = length[p]
              /\ Range(strip[p]) \subseteq DOMAIN Table(p)
         /\ (pc[p] = "raised" /\ err[p] = "ValueError") => ~ValidTable(Table(p))

C2_Witness ==
  /\ pc[1] = "done"
  /\ bias_symbols[1] = <<>> /\ bomb_multiplier[1] = Int_(1)
  /\ data[1] = FilePartial
  /\ ValidTable(Table(1))
  /\ Unknown \in Range(strip[1])

\* C3: once load_symbol_weights has accepted the configuration, the call
\* never raises, whatever the multiplier and the bias list.
C3_NeverRaises ==
  \A p \in Procs : ~(pc[p] = "raised" /\ err[p] = "ValueError")

\* C4: an iteration of the bias loop never raises, writes no position outside
\* the strip and leaves the strip at its length; an iteration that finds no
\* eligible position changes nothing.
C4_ExcessInsertionsSkipped ==
  [][\A p \in Procs :
       (pc[p] = "bias" /\ (pc'[p] # pc[p] \/ bias_i'[p] # bias_i[p])) =>
         /\ pc'[p] \in {"bias", "done"}
         /\ Len(strip'[p]) = length[p]
         /\ replace_idx'[p] \in 0..length[p]
         /\ AvailableIndices(strip[p], bias_symbols[p]) = {} =>
              (strip'[p] = strip[p] /\ replace_idx'[p] = replace_idx[p])
         /\ \A i \in DOMAIN strip[p] :
              i # replace_idx'[p] => strip'[p][i] = strip[p][i]]_vars

\* more bias symbols than positions: the last insertion found none eligible
C4_Witness ==
  /\ pc[1] = "done"
  /\ Len(bias_symbols[1]) > length[1]
  /\ Len(strip[1]) = length[1]
  /\ Range(strip[1]) \subseteq Range(bias_symbols[1])

\* C5: the table load_symbol_weights returns has a total weight > 0; it is
\* the default table when the file is missing or unreadable, and when the
\* merged weights sum to <= 0.
C5_LoadedTotalPositive ==
  [][\A p \in Procs :
       (pc[p] \in {"load", "sumcheck"} /\ pc'[p] = "bomb") =>
         /\ FGt0(SumWeights(Table(p)'))
         /\ data'[p].kind \in {"missing", "unreadable"} =>
              Table(p)' = DefaultWeightsLiteral
         /\ (pc[p] = "sumcheck" /\ FLe0(SumWeights(Deref(merged[p])))) =>
              Table(p)' = DefaultWeightsLiteral]_vars

\* The value an entry gives: the one under probability when it is present.
Given(e) == IF e.probability # Absent THEN e.probability ELSE e.weight

\* An entry that is no object, gives no number, or gives a negative one.
Skipped(e) ==
  \/ ~e.isdict
  \/ Given(e).t \in {"absent", "null", "str"}
  \/ (Given(e).t \in {"int", "numstr"} /\ Given(e).v < 0)

\* The number a numeric raw value stands for.
ValueOf(raw) ==
  CASE raw.t = "nan" -> NaN
    [] raw.t = "inf" -> Inf
    [] OTHER         -> F(raw.v)

C7_StripLengthAtLeast3 ==
  /\ lpc # "raised"
  /\ lpc = "returned" =>
       /\ strip_length >= 3
       /\ strip_length =
            IF config.kind = "dict" /\ config.reel_strip_length.t \in {"int", "numstr"}
            THEN Max(3, config.reel_strip_length.v)
            ELSE 6

\* The merge of the original defaults with the file f.
ExpectedLoad(f) ==
  IF f.kind \in {"missing", "unreadable"} THEN DefaultWeightsLiteral
  ELSE LET m == MergeLoop(DefaultWeightsLiteral,
                          IF f.kind = "dict" THEN f.entries ELSE <<>>)
       IN IF SumIsDegenerate(m) THEN DefaultWeightsLiteral ELSE m

\* C8: DEFAULT_WEIGHTS never changes, and the table of every call is the
\* merge of the original defaults with the file that call read, adjusted by
\* that call's own multiplier only.
C8_DefaultsUntouched ==
  /\ DEFAULT_WEIGHTS = DefaultWeightsLiteral
  /\ \A p \in Procs :
       /\ pc[p] = "bomb" => Table(p) = ExpectedLoad(data[p])
       /\ pc[p] \in {"draw", "bias", "done"} =>
            Table(p) = ApplyBombMultiplier(ExpectedLoad(data[p]),
                                           NormalizeMultiplier(bomb_multiplier[p]))

\* two calls hold their own adjusted tables at the same time
C8_Witness ==
  /\ pc[1] = "draw" /\ pc[2] = "draw"
  /\ bomb_multiplier[1] = Int_(2) /\ bomb_multiplier[2] = Int_(0)
  /\ data[1] = FileMissing
  /\ Table(1)["bomb_1"] = F(30)
  /\ Table(2)["bomb_1"] = F(0)

\* C9: a position overwritten by the bias loop held no bias-list symbol just
\* before; a position that holds a bias-list symbol keeps it.
C9_BiasSymbolsNeverOverwritten ==
  [][\A p \in Procs :
       (pc[p] = "bias" /\ pc'[p] \in {"bias", "done"}) =>
         \A i \in DOMAIN strip[p] :
           /\ strip[p][i] \in Range(bias_symbols[p]) => strip'[p][i] = strip[p][i]
           /\ (replace_idx'[p] = i /\ strip'[p] # strip[p]) =>
                strip[p][i] \notin Range(bias_symbols[p])]_vars

\* the first insertion is in place and a second one is about to run
C9_Witness ==
  /\ pc[1] = "bias"
  /\ bias_i[1] = 2
  /\ replace_idx[1] > 0
  /\ strip[1][replace_idx[1]] = bias_symbols[1][1]
  /\ AvailableIndices(strip[1], bias_symbols[1]) # {}

\* The kinds of multiplier: a value float() accepts, a negative one, 1.0.
IsNumber(raw) == raw.t \in {"int", "numstr", "nan", "inf"}
IsNegative(raw) == raw.t \in {"int", "numstr"} /\ raw.v < 0
IsOne(raw) == raw.t \in {"int", "numstr"} /\ raw.v = 1

=============================================================================
